---------------------------- MODULE Spec2Model ----------------------------
(***************************************************************************)
(* Model of scripts/compare_gpx.py: parsing of two GPX tracks, matching of *)
(* baseline points to test points by time or by position, summary          *)
(* statistics and the report of one run of main().                         *)
(*                                                                         *)
(* Representation.                                                         *)
(*   Optional[x]   the sequence <<>> (None) or <<x>>.                      *)
(*   datetime      the record [utc |-> n], n the UTC instant in seconds.   *)
(*   float         an integer: seconds, degrees, or metres rounded to the  *)
(*                 nearest metre.  median and mean, which may be           *)
(*                 fractional, are pairs <<numerator, denominator>>.       *)
(*   str           attribute and time texts are records that say how the   *)
(*                 text reads (see AttrTexts, TimeTexts).                  *)
(* Coordinates range over finite in-range degrees (the GeoPoint domain);   *)
(* NaN and infinite coordinates are outside the model.                     *)
(***************************************************************************)
EXTENDS Integers, Sequences, FiniteSets, TLC

VARIABLES
    pc,           \* position of the run
    argv,         \* parsed arguments: match, epsilon_sec, csv_path
    fs,           \* the files: baseline, test, and whether csv_path can be opened
    baseline,     \* main: parse_gpx(args.baseline)
    test,         \* main: parse_gpx(args.test)
    base_t,       \* match_by_time: timestamped baseline points, sorted
    test_t,       \* match_by_time: timestamped test points, sorted
    k,            \* number of baseline points the match loop has consumed
    idx,          \* match_by_time: bisect_left position of the last iteration
    candidates,   \* match_by_time: candidates of the last iteration
    winner,       \* match_by_time: Optional winner of the last iteration
    best_point,   \* match_by_spatial: Optional best_point of the last iteration
    matches,      \* list of (b, t, dist)
    distances,    \* main: distances of the matches; the argument of summarize
    pct,          \* argument of a direct call of percentile
    result,       \* Optional return value of a direct call of percentile
    stats,        \* Optional (count, median, p90, max, mean)
    stdout,       \* lines printed so far
    csv_file,     \* Optional rows written to csv_path
    raised,       \* Optional exception that ended the run
    exit_status   \* Optional exit status of the process

vars == <<pc, argv, fs, baseline, test, base_t, test_t, k, idx, candidates,
          winner, best_point, matches, distances, pct, result, stats, stdout,
          csv_file, raised, exit_status>>

-----------------------------------------------------------------------------
(* Bounds of the model *)

MaxLen == 2      \* longest track, in points, and longest file of a whole run
MaxElems == 3    \* longest file, in elements, given to parse_gpx alone
MaxN == 4        \* longest list of distances given to summarize directly
MaxVal == 4      \* largest distance given to summarize directly

-----------------------------------------------------------------------------
(* Generic helpers *)

None == <<>>
Some(x) == <<x>>

Abs(x) == IF x < 0 THEN -x ELSE x

SeqsUpTo(S, n) == UNION {[1..m -> S] : m \in 0..n}

-----------------------------------------------------------------------------
(* The text of a GPX file *)

\* The text of a lat/lon attribute is [reads |-> "float", val |-> d], one that
\* float() accepts and reads as d degrees, or [reads |-> "junk", val |-> 0], one
\* that float() rejects with ValueError.  Latitudes are 0 or 1, longitudes 0, 1
\* or 2 degrees.

\* The text of a <time> element.  wall is the wall-clock reading in seconds,
\* off the UTC offset it is written with.
\*   naive   2024-01-01T00:00:01
\*   zulu    2024-01-01T00:00:01Z
\*   offset  2024-01-01T00:00:02+00:00:01
\*   blank   whitespace only;  empty  "";  junk  not ISO-8601
TimeText(form, wall, off) == [form |-> form, wall |-> wall, off |-> off]

\* A child element of a trkpt: its tag, namespace included, and Optional text.
Child(ns, name, text) == [ns |-> ns, name |-> name, text |-> text]

\* An element of the document that carries coordinates (a trkpt, or a wpt or
\* rtept, which is no track point): its tag, Optional lat and lon attribute
\* texts, and its children.
Element(ns, name, lat, lon, children) ==
    [ns |-> ns, name |-> name, lat |-> lat, lon |-> lon, children |-> children]

\* A file: missing/unreadable, not well-formed XML, or a document whose
\* elements are listed in document order.
MissingFile == [state |-> "missing", elements |-> <<>>]
MalformedFile == [state |-> "malformed", elements |-> <<>>]
XmlFile(elements) == [state |-> "xml", elements |-> elements]

-----------------------------------------------------------------------------
(* TrackPoint and parsing *)

TrackPoint(timestamp, seconds, lat, lon) ==
    [timestamp |-> timestamp, seconds |-> seconds, lat |-> lat, lon |-> lon]

\* _local(tag): the tag without its "{namespace}" prefix.
_local(tag) == tag.name

\* datetime.fromisoformat(text), as Optional (None where it raises ValueError),
\* followed by the normalisation to UTC.
fromisoformat_utc(text) ==
    CASE text.form = "naive"  -> Some([utc |-> text.wall])
      [] text.form = "offset" -> Some([utc |-> text.wall - text.off])
      [] OTHER                -> None

_parse_time(raw) ==
    IF raw = None \/ raw[1].form = "empty" THEN None
    ELSE IF raw[1].form = "blank" THEN None
    ELSE LET text == IF raw[1].form = "zulu"
                     THEN TimeText("offset", raw[1].wall, 0)
                     ELSE raw[1]
         IN  fromisoformat_utc(text)

RECURSIVE first_time(_)
\* The loop over the children of a trkpt: the first child whose local name is
\* "time" decides the timestamp, whatever follows it.
first_time(children) ==
    IF children = <<>> THEN None
    ELSE IF _local(Head(children)) = "time" THEN _parse_time(Head(children).text)
    ELSE first_time(Tail(children))

\* Mutant: a coordinate float() rejects is read as 0 instead of skipping the record.
parse_trkpt_no_float_check(trkpt) ==
    IF trkpt.lat = None \/ trkpt.lon = None THEN <<>>
    ELSE LET timestamp == first_time(trkpt.children)
             seconds == IF timestamp # None THEN Some(timestamp[1].utc) ELSE None
         IN  <<TrackPoint(timestamp, seconds, trkpt.lat[1].val, trkpt.lon[1].val)>>

\* Mutant: a record without a usable time is skipped.
parse_trkpt_drop_untimed(trkpt) ==
    IF trkpt.lat = None \/ trkpt.lon = None THEN <<>>
    ELSE IF trkpt.lat[1].reads # "float" \/ trkpt.lon[1].reads # "float" THEN <<>>
    ELSE LET timestamp == first_time(trkpt.children)
         IN  IF timestamp = None THEN <<>>
             ELSE <<TrackPoint(timestamp, Some(timestamp[1].utc),
                               trkpt.lat[1].val, trkpt.lon[1].val)>>

\* One pass of the loop body of parse_gpx: the points a trkpt contributes.
parse_trkpt(trkpt) ==
    IF trkpt.lat = None \/ trkpt.lon = None THEN <<>>
    ELSE IF trkpt.lat[1].reads # "float" \/ trkpt.lon[1].reads # "float" THEN <<>>
    ELSE LET timestamp == first_time(trkpt.children)
             seconds == IF timestamp # None THEN Some(timestamp[1].utc) ELSE None
         IN  <<TrackPoint(timestamp, seconds, trkpt.lat[1].val, trkpt.lon[1].val)>>

\* root.findall(".//{*}trkpt"): the elements named trkpt in any namespace, in
\* document order.
findall_trkpt(elements) == SelectSeq(elements, LAMBDA e : e.name = "trkpt")

RECURSIVE parse_trkpts(_)
\* The for loop of parse_gpx over the trkpt elements.
parse_trkpts(trkpts) ==
    IF trkpts = <<>> THEN <<>>
    ELSE parse_trkpt(Head(trkpts)) \o parse_trkpts(Tail(trkpts))

\* parse_gpx(path): the exception ET.parse raises, or the list of points.
parse_gpx(file) ==
    CASE file.state = "missing"   -> [exc |-> Some("FileNotFoundError"), pts |-> <<>>]
      [] file.state = "malformed" -> [exc |-> Some("ParseError"), pts |-> <<>>]
      [] OTHER                    -> [exc |-> None, pts |-> parse_trkpts(findall_trkpt(file.elements))]

-----------------------------------------------------------------------------
(* Distance *)

\* haversine_m for whole-degree coordinates with lat in Lats and lon in Lons,
\* in metres rounded to the nearest metre.  The value depends on lat1, lat2
\* and dlon = lon2 - lon1 only; it is tabulated from the formula.
haversine_m(lat1, lon1, lat2, lon2) ==
    LET dlon == lon2 - lon1
        adlon == Abs(dlon)
    IN  CASE lat1 = lat2 /\ adlon = 0             -> 0
          [] lat1 = 0 /\ lat2 = 0 /\ adlon = 1    -> 111195
          [] lat1 = 0 /\ lat2 = 0 /\ adlon = 2    -> 222390
          [] lat1 = 1 /\ lat2 = 1 /\ adlon = 1    -> 111178
          [] lat1 = 1 /\ lat2 = 1 /\ adlon = 2    -> 222356
          [] lat1 # lat2 /\ adlon = 0             -> 111195
          [] lat1 # lat2 /\ adlon = 1             -> 157249
          [] lat1 # lat2 /\ adlon = 2             -> 248629

-----------------------------------------------------------------------------
(* match_by_time *)

\* [p for p in pts if p.seconds is not None]
timestamped(pts) == SelectSeq(pts, LAMBDA p : p.seconds # None)

RECURSIVE insert_by_seconds(_, _)
\* p placed after every element of the sorted list whose key is <= its own.
insert_by_seconds(sorted, p) ==
    IF sorted = <<>> THEN <<p>>
    ELSE IF p.seconds[1] < Head(sorted).seconds[1] THEN <<p>> \o sorted
    ELSE <<Head(sorted)>> \o insert_by_seconds(Tail(sorted), p)

RECURSIVE sort_by_seconds(_)
\* list.sort(key=lambda p: p.seconds): ascending and stable.
sort_by_seconds(pts) ==
    IF pts = <<>> THEN <<>>
    ELSE insert_by_seconds(sort_by_seconds(SubSeq(pts, 1, Len(pts) - 1)), pts[Len(pts)])

RECURSIVE bisect_loop(_, _, _, _)
bisect_loop(a, x, lo, hi) ==
    IF lo < hi
    THEN LET mid == (lo + hi) \div 2
         IN  IF a[mid + 1] < x THEN bisect_loop(a, x, mid + 1, hi)
             ELSE bisect_loop(a, x, lo, mid)
    ELSE lo

\* bisect.bisect_left(a, x): a 0-based position.
bisect_left(a, x) == bisect_loop(a, x, 0, Len(a))

\* Mutant: only the point at the insertion position is a candidate.
time_candidates_single(sorted_test, i) ==
    IF i < Len(sorted_test) THEN <<sorted_test[i + 1]>> ELSE <<>>

\* Mutant: only the point before the insertion position is a candidate.
time_candidates_prev_only(sorted_test, i) ==
    IF i > 0 THEN <<sorted_test[i]>> ELSE <<>>

\* The candidate list of one iteration, in the order it is built.
time_candidates(sorted_test, i) ==
    (IF i < Len(sorted_test) THEN <<sorted_test[i + 1]>> ELSE <<>>)
    \o (IF i > 0 THEN <<sorted_test[i]>> ELSE <<>>)

RECURSIVE min_by_delta_last(_, _)
\* Mutant: the last element of the least key.
min_by_delta_last(cands, sec) ==
    IF Len(cands) = 1 THEN cands[1]
    ELSE LET rest == min_by_delta_last(Tail(cands), sec)
         IN  IF Abs(rest.seconds[1] - sec) <= Abs(cands[1].seconds[1] - sec)
             THEN rest ELSE cands[1]

RECURSIVE min_by_delta(_, _)
\* min(cands, key=lambda p: abs(p.seconds - sec)): the first element of the
\* least key.  cands is not empty.
min_by_delta(cands, sec) ==
    IF Len(cands) = 1 THEN cands[1]
    ELSE LET rest == min_by_delta(Tail(cands), sec)
         IN  IF Abs(rest.seconds[1] - sec) < Abs(cands[1].seconds[1] - sec)
             THEN rest ELSE cands[1]

\* Mutant: the signed delta is compared.
within_epsilon_signed(w, sec, epsilon) == w.seconds[1] - sec <= epsilon

\* Mutant: a delta of exactly epsilon is rejected.
within_epsilon_strict(w, sec, epsilon) == Abs(w.seconds[1] - sec) < epsilon

\* if abs(winner.seconds - sec) <= epsilon
within_epsilon(w, sec, epsilon) == Abs(w.seconds[1] - sec) <= epsilon

Match(b, t, dist) == [b |-> b, t |-> t, dist |-> dist]

-----------------------------------------------------------------------------
(* match_by_spatial *)

RECURSIVE nearest_scan_le(_, _, _, _)
\* Mutant: "dist <= best", so a later point at an equal distance replaces the best.
nearest_scan_le(b, tst, best, best_pt) ==
    IF tst = <<>> THEN [best |-> best, best_point |-> best_pt]
    ELSE LET tp == Head(tst)
             dist == haversine_m(b.lat, b.lon, tp.lat, tp.lon)
         IN  IF best = None \/ dist <= best[1]
             THEN nearest_scan_le(b, Tail(tst), Some(dist), Some(tp))
             ELSE nearest_scan_le(b, Tail(tst), best, best_pt)

RECURSIVE nearest_scan(_, _, _, _)
\* The inner loop of match_by_spatial over test[j..]: best is the Optional
\* least distance so far (None for float("inf")), best_pt its point.
nearest_scan(b, tst, best, best_pt) ==
    IF tst = <<>> THEN [best |-> best, best_point |-> best_pt]
    ELSE LET tp == Head(tst)
             dist == haversine_m(b.lat, b.lon, tp.lat, tp.lon)
         IN  IF best = None \/ dist < best[1]
             THEN nearest_scan(b, Tail(tst), Some(dist), Some(tp))
             ELSE nearest_scan(b, Tail(tst), best, best_pt)

-----------------------------------------------------------------------------
(* percentile and summarize *)

\* float("nan") is None; any other float result x is Some(x).
NaN == None

\* Mutant: the quotient is rounded down.
ceil_div_floor(a, b) == a \div b

\* math.ceil(a / b) for b > 0
ceil_div(a, b) == -((-a) \div b)

RECURSIVE insert_sorted(_, _)
insert_sorted(sorted, x) ==
    IF sorted = <<>> THEN <<x>>
    ELSE IF x < Head(sorted) THEN <<x>> \o sorted
    ELSE <<Head(sorted)>> \o insert_sorted(Tail(sorted), x)

RECURSIVE sorted_list(_)
\* sorted(distances)
sorted_list(xs) ==
    IF xs = <<>> THEN <<>>
    ELSE insert_sorted(sorted_list(SubSeq(xs, 1, Len(xs) - 1)), xs[Len(xs)])

RECURSIVE sum_list(_)
sum_list(xs) == IF xs = <<>> THEN 0 ELSE Head(xs) + sum_list(Tail(xs))

percentile(sorted_vals, p) ==
    IF sorted_vals = <<>> THEN NaN
    ELSE IF p <= 0 THEN Some(sorted_vals[1])
    ELSE IF p >= 100 THEN Some(sorted_vals[Len(sorted_vals)])
    ELSE LET n == Len(sorted_vals)
             rank0 == ceil_div(p * n, 100) - 1
             lower == IF rank0 > 0 THEN rank0 ELSE 0
             rank == IF lower < n - 1 THEN lower ELSE n - 1
         IN  Some(sorted_vals[rank + 1])

\* (count, median, p90, max, mean); median and mean as <<numerator, denominator>>.
summarize(ds) ==
    LET n == Len(ds)
        vals == sorted_list(ds)
        mid == n \div 2
    IN  IF n = 0
        THEN [count |-> 0, median |-> NaN, p90 |-> NaN, max_val |-> NaN, mean |-> NaN]
        ELSE [count   |-> n,
              median  |-> IF n % 2 = 1 THEN Some(<<vals[mid + 1], 1>>)
                          ELSE Some(<<vals[mid] + vals[mid + 1], 2>>),
              p90     |-> percentile(vals, 90),
              max_val |-> Some(vals[n]),
              mean    |-> Some(<<sum_list(vals), n>>)]

-----------------------------------------------------------------------------
(* Report *)

\* isoformat_z(dt): "" for None, else the UTC instant to the second.
isoformat_z(dt) == IF dt = None THEN <<>> ELSE <<dt[1].utc>>

csv_row(m) ==
    [timestamp |-> isoformat_z(m.b.timestamp), lat |-> m.b.lat, lon |-> m.b.lon,
     error_m |-> m.dist]

\* The rows write_csv writes after the header.
csv_rows(ms) == [j \in 1..Len(ms) |-> csv_row(ms[j])]

Line(label, value) == [label |-> label, value |-> value]

stats_lines(st) ==
    <<Line("Matched", Some(st.count)), Line("Median", st.median), Line("P90", st.p90),
      Line("Max", st.max_val), Line("Mean", st.mean)>>

-----------------------------------------------------------------------------
(* The run of main() *)

\* An uncaught exception ends the process with a traceback and status 1.
Raise(exc) ==
    /\ raised' = Some(exc)
    /\ exit_status' = Some(1)
    /\ pc' = "exit"

\* baseline = parse_gpx(args.baseline)
ParseBaseline ==
    /\ pc = "parse_baseline"
    /\ LET r == parse_gpx(fs.baseline)
       IN  IF r.exc # None
           THEN Raise(r.exc[1]) /\ UNCHANGED baseline
           ELSE /\ baseline' = r.pts
                /\ pc' = "parse_test"
                /\ UNCHANGED <<raised, exit_status>>
    /\ UNCHANGED <<argv, fs, test, base_t, test_t, k, idx, candidates, winner,
                   best_point, matches, distances, pct, result, stats, stdout, csv_file>>

\* test = parse_gpx(args.test)
ParseTest ==
    /\ pc = "parse_test"
    /\ LET r == parse_gpx(fs.test)
       IN  IF r.exc # None
           THEN Raise(r.exc[1]) /\ UNCHANGED test
           ELSE /\ test' = r.pts
                /\ pc' = "match"
                /\ UNCHANGED <<raised, exit_status>>
    /\ UNCHANGED <<argv, fs, baseline, base_t, test_t, k, idx, candidates, winner,
                   best_point, matches, distances, pct, result, stats, stdout, csv_file>>

\* The call of match_by_spatial up to its loop: the early return on an empty track.
EnterSpatial ==
    /\ pc = "match"
    /\ argv.match = "nearest"
    /\ matches' = <<>>
    /\ k' = 0
    /\ pc' = IF baseline = <<>> \/ test = <<>> THEN "summarize" ELSE "spatial_loop"
    /\ UNCHANGED <<argv, fs, baseline, test, base_t, test_t, idx, candidates, winner,
                   best_point, distances, pct, result, stats, stdout, csv_file,
                   raised, exit_status>>

\* One iteration of "for b in base" of match_by_spatial.
SpatialIter ==
    /\ pc = "spatial_loop"
    /\ k < Len(baseline)
    /\ LET b == baseline[k + 1]
           r == nearest_scan(b, test, None, None)
       IN  /\ best_point' = r.best_point
           /\ matches' = IF r.best_point # None
                         THEN Append(matches, Match(b, r.best_point[1], r.best[1]))
                         ELSE matches
    /\ k' = k + 1
    /\ UNCHANGED <<pc, argv, fs, baseline, test, base_t, test_t, idx, candidates, winner,
                   distances, pct, result, stats, stdout, csv_file, raised, exit_status>>

\* return matches
SpatialReturn ==
    /\ pc = "spatial_loop"
    /\ k = Len(baseline)
    /\ pc' = "summarize"
    /\ UNCHANGED <<argv, fs, baseline, test, base_t, test_t, k, idx, candidates, winner,
                   best_point, matches, distances, pct, result, stats, stdout, csv_file,
                   raised, exit_status>>

\* The call of match_by_time up to its loop: filter, early return, sort.
EnterTime ==
    /\ pc = "match"
    /\ argv.match = "time"
    /\ matches' = <<>>
    /\ k' = 0
    /\ LET bt == timestamped(baseline)
           tt == timestamped(test)
       IN  IF bt = <<>> \/ tt = <<>>
           THEN /\ base_t' = bt
                /\ test_t' = tt
                /\ pc' = "summarize"
           ELSE /\ base_t' = sort_by_seconds(bt)
                /\ test_t' = sort_by_seconds(tt)
                /\ pc' = "time_loop"
    /\ UNCHANGED <<argv, fs, baseline, test, idx, candidates, winner, best_point,
                   distances, pct, result, stats, stdout, csv_file, raised, exit_status>>

\* One iteration of "for b in base_t" of match_by_time.
TimeIter ==
    /\ pc = "time_loop"
    /\ k < Len(base_t)
    /\ LET b == base_t[k + 1]
           sec == b.seconds[1]
           test_secs == [j \in 1..Len(test_t) |-> test_t[j].seconds[1]]
           i == bisect_left(test_secs, sec)
           cands == time_candidates(test_t, i)
       IN  /\ idx' = i
           /\ candidates' = cands
           /\ IF cands = <<>>
              THEN UNCHANGED <<winner, matches>>
              ELSE LET w == min_by_delta(cands, sec)
                   IN  /\ winner' = Some(w)
                       /\ matches' =
                            IF within_epsilon(w, sec, argv.epsilon_sec)
                            THEN Append(matches,
                                        Match(b, w, haversine_m(b.lat, b.lon, w.lat, w.lon)))
                            ELSE matches
    /\ k' = k + 1
    /\ UNCHANGED <<pc, argv, fs, baseline, test, base_t, test_t, best_point,
                   distances, pct, result, stats, stdout, csv_file, raised, exit_status>>

\* return matches
TimeReturn ==
    /\ pc = "time_loop"
    /\ k = Len(base_t)
    /\ pc' = "summarize"
    /\ UNCHANGED <<argv, fs, baseline, test, base_t, test_t, k, idx, candidates, winner,
                   best_point, matches, distances, pct, result, stats, stdout, csv_file,
                   raised, exit_status>>

\* distances = [d for _b, _t, d in matches]; summarize(distances)
Summarize ==
    /\ pc = "summarize"
    /\ LET ds == [j \in 1..Len(matches) |-> matches[j].dist]
       IN  /\ distances' = ds
           /\ stats' = Some(summarize(ds))
    /\ pc' = "report"
    /\ UNCHANGED <<argv, fs, baseline, test, base_t, test_t, k, idx, candidates, winner,
                   best_point, matches, pct, result, stdout, csv_file, raised, exit_status>>

\* Mutant: the no-match branch returns 0.
ReportNone_returns0 ==
    /\ pc = "report"
    /\ stats[1].count = 0
    /\ stdout' = Append(stdout, [label |-> "No matched points found.", value |-> None])
    /\ exit_status' = Some(0)
    /\ pc' = "exit"
    /\ UNCHANGED <<argv, fs, baseline, test, base_t, test_t, k, idx, candidates, winner,
                   best_point, matches, distances, pct, result, stats, csv_file, raised>>

\* if count == 0: print("No matched points found."); return 1
ReportNone ==
    /\ pc = "report"
    /\ stats[1].count = 0
    /\ stdout' = Append(stdout, Line("No matched points found.", None))
    /\ exit_status' = Some(1)
    /\ pc' = "exit"
    /\ UNCHANGED <<argv, fs, baseline, test, base_t, test_t, k, idx, candidates, winner,
                   best_point, matches, distances, pct, result, stats, csv_file, raised>>

\* The five print calls, and return 0 when no --csv was given.
ReportStats ==
    /\ pc = "report"
    /\ stats[1].count # 0
    /\ stdout' = stdout \o stats_lines(stats[1])
    /\ IF argv.csv_path # None
       THEN pc' = "write_csv" /\ UNCHANGED exit_status
       ELSE pc' = "exit" /\ exit_status' = Some(0)
    /\ UNCHANGED <<argv, fs, baseline, test, base_t, test_t, k, idx, candidates, winner,
                   best_point, matches, distances, pct, result, stats, csv_file, raised>>

\* write_csv(matches, args.csv_path), the confirmation line, return 0.  open()
\* raises OSError when the path cannot be opened for writing.
WriteCsv ==
    /\ pc = "write_csv"
    /\ IF fs.csv_writable
       THEN /\ csv_file' = Some(csv_rows(matches))
            /\ stdout' = Append(stdout, Line("CSV written to", argv.csv_path))
            /\ exit_status' = Some(0)
            /\ pc' = "exit"
            /\ UNCHANGED raised
       ELSE Raise("OSError") /\ UNCHANGED <<csv_file, stdout>>
    /\ UNCHANGED <<argv, fs, baseline, test, base_t, test_t, k, idx, candidates, winner,
                   best_point, matches, distances, pct, result, stats>>

\* Direct calls of percentile and summarize.
CallPercentile ==
    /\ pc = "call"
    /\ distances = sorted_list(distances)
    /\ result' = percentile(distances, pct)
    /\ pc' = "returned"
    /\ UNCHANGED <<argv, fs, baseline, test, base_t, test_t, k, idx, candidates, winner,
                   best_point, matches, distances, pct, stats, stdout, csv_file,
                   raised, exit_status>>

CallSummarize ==
    /\ pc = "call"
    /\ stats' = Some(summarize(distances))
    /\ pc' = "summarized"
    /\ UNCHANGED <<argv, fs, baseline, test, base_t, test_t, k, idx, candidates, winner,
                   best_point, matches, distances, pct, result, stdout, csv_file,
                   raised, exit_status>>

-----------------------------------------------------------------------------
(* Inputs *)

Float(d) == Some([reads |-> "float", val |-> d])
Junk == Some([reads |-> "junk", val |-> 0])
Time(text) == Child("", "time", Some(text))

\* The children of a trkpt: no time; naive, Z and offset times; a sibling
\* before a namespaced time; an unparseable time before a good one; a time
\* with no text, with an empty text and with a blank one.
ChildrenSamples ==
    { <<>>,
      <<Time(TimeText("naive", 1, 0))>>,
      <<Child("gpx11", "ele", None), Child("gpx11", "time", Some(TimeText("zulu", 2, 0)))>>,
      <<Time(TimeText("offset", 3, 1))>>,
      <<Time(TimeText("junk", 0, 0)), Time(TimeText("naive", 1, 0))>>,
      <<Child("", "time", None)>>,
      <<Time(TimeText("empty", 0, 0))>>,
      <<Time(TimeText("blank", 0, 0))>> }

\* Elements of a file given to parse_gpx: well-formed track points, track points
\* with a missing or non-numeric coordinate, and a waypoint.
ParseElements ==
    {Element("gpx11", "trkpt", Float(0), Float(1), c) : c \in ChildrenSamples}
    \cup {Element("", "trkpt", Float(1), Float(0), c) :
            c \in {<<>>, <<Time(TimeText("naive", 1, 0))>>}}
    \cup {Element("", "trkpt", ll[1], ll[2], <<Time(TimeText("naive", 1, 0))>>) :
            ll \in {<<None, Float(1)>>, <<Junk, Float(1)>>,
                    <<Float(0), None>>, <<Float(0), Junk>>}}
    \cup {Element("gpx11", "wpt", Float(0), Float(1), <<>>)}

ParseFiles ==
    {MissingFile, MalformedFile} \cup {XmlFile(es) : es \in SeqsUpTo(ParseElements, MaxElems)}

\* A point as parse_gpx builds it.
Point(secs, lat, lon) ==
    IF secs = None THEN TrackPoint(None, None, lat, lon)
    ELSE TrackPoint(Some([utc |-> secs[1]]), secs, lat, lon)

\* Points for the time strategy: an untimed point, and points at t = 0, 1, 2 s,
\* two of the times at two places each.
TimePoints ==
    { Point(None, 0, 0), Point(Some(0), 0, 0),
      Point(Some(1), 0, 0), Point(Some(1), 0, 1),
      Point(Some(2), 0, 0), Point(Some(2), 0, 1) }

\* Points for the nearest strategy: four places, (0,1) halfway between (0,0)
\* and (0,2), some of them with a time and some without.
SpatialPoints ==
    { Point(None, 0, 0), Point(Some(0), 0, 0), Point(None, 0, 1),
      Point(None, 0, 2), Point(Some(0), 0, 2), Point(Some(0), 1, 0) }

Epsilons == {0, 1}

\* A well-formed track point element with a naive time.
Pt(lat, lon, t) == Element("", "trkpt", Float(lat), Float(lon), <<Time(TimeText("naive", t, 0))>>)

\* The end-to-end scenario: baseline at t = 0, 10, 20 s, test at t = 1, 9, 22 s.
ScenarioBaseline == XmlFile(<<Pt(0, 0, 0), Pt(0, 1, 10), Pt(0, 2, 20)>>)
ScenarioTest == XmlFile(<<Pt(0, 0, 1), Pt(0, 1, 9), Pt(1, 1, 22)>>)

MainElements ==
    { Pt(0, 0, 0), Pt(0, 1, 1),
      Element("", "trkpt", Float(1), Float(0), <<>>),
      Element("", "trkpt", Junk, Float(0), <<Time(TimeText("naive", 0, 0))>>) }

MainFiles ==
    {MissingFile, MalformedFile, ScenarioBaseline, ScenarioTest}
    \cup {XmlFile(es) : es \in SeqsUpTo(MainElements, MaxLen)}

MainEpsilons == {0, 5}

Percentiles == {-10, 0, 1, 25, 50, 75, 90, 99, 100, 150}

Args(match, epsilon_sec, csv_path) ==
    [match |-> match, epsilon_sec |-> epsilon_sec, csv_path |-> csv_path]

Files(b, t, w) == [baseline |-> b, test |-> t, csv_writable |-> w]

-----------------------------------------------------------------------------
(* Specifications *)

\* The variables no input decides, as they are before anything has run.
InitLocals ==
    /\ base_t = <<>>
    /\ test_t = <<>>
    /\ k = 0
    /\ idx = 0
    /\ candidates = <<>>
    /\ winner = None
    /\ best_point = None
    /\ matches = <<>>
    /\ result = None
    /\ stats = None
    /\ stdout = <<>>
    /\ csv_file = None
    /\ raised = None
    /\ exit_status = None

\* A whole run of main().
Init ==
    /\ pc = "parse_baseline"
    /\ argv \in {Args(m, e, c) : m \in {"time", "nearest"}, e \in MainEpsilons,
                                c \in {None, Some("errors.csv")}}
    /\ fs \in {Files(b, t, w) : b \in MainFiles, t \in MainFiles, w \in BOOLEAN}
    /\ baseline = <<>>
    /\ test = <<>>
    /\ distances = <<>>
    /\ pct = 0
    /\ InitLocals

Next ==
    \/ ParseBaseline
    \/ ParseTest
    \/ EnterTime
    \/ TimeIter
    \/ TimeReturn
    \/ EnterSpatial
    \/ SpatialIter
    \/ SpatialReturn
    \/ Summarize
    \/ ReportNone
    \/ ReportStats
    \/ WriteCsv

Spec == Init /\ [][Next]_vars

\* parse_gpx alone, on files of every kind of element.
InitParse ==
    /\ pc = "parse_baseline"
    /\ argv = Args("time", 0, None)
    /\ fs \in {Files(b, t, TRUE) : b \in ParseFiles, t \in {MalformedFile, XmlFile(<<>>)}}
    /\ baseline = <<>>
    /\ test = <<>>
    /\ distances = <<>>
    /\ pct = 0
    /\ InitLocals

NextParse == ParseBaseline \/ ParseTest

SpecParse == InitParse /\ [][NextParse]_vars

\* The two matchers alone, on the tracks parse_gpx can return.
InitMatch ==
    /\ pc = "match"
    /\ \/ /\ argv \in {Args("time", e, None) : e \in Epsilons}
          /\ baseline \in SeqsUpTo(TimePoints, MaxLen)
          /\ test \in SeqsUpTo(TimePoints, MaxLen)
       \/ /\ argv = Args("nearest", 0, None)
          /\ baseline \in SeqsUpTo(SpatialPoints, MaxLen)
          /\ test \in SeqsUpTo(SpatialPoints, MaxLen)
    /\ fs = Files(XmlFile(<<>>), XmlFile(<<>>), TRUE)
    /\ distances = <<>>
    /\ pct = 0
    /\ InitLocals

NextMatch ==
    \/ EnterTime
    \/ TimeIter
    \/ TimeReturn
    \/ EnterSpatial
    \/ SpatialIter
    \/ SpatialReturn

SpecMatch == InitMatch /\ [][NextMatch]_vars

\* percentile and summarize alone.
InitSummary ==
    /\ pc = "call"
    /\ argv = Args("time", 0, None)
    /\ fs = Files(XmlFile(<<>>), XmlFile(<<>>), TRUE)
    /\ baseline = <<>>
    /\ test = <<>>
    /\ distances \in SeqsUpTo(0..MaxVal, MaxN)
    /\ pct \in Percentiles
    /\ InitLocals

NextSummary == CallPercentile \/ CallSummarize

SpecSummary == InitSummary /\ [][NextSummary]_vars

-----------------------------------------------------------------------------
(* Properties *)

Range(seq) == {seq[j] : j \in DOMAIN seq}

Count(seq, x) == Cardinality({j \in DOMAIN seq : seq[j] = x})

\* The time strategy has run at least one iteration of its loop; b is the
\* baseline point of the last one.
TimeIterated == argv.match = "time" /\ pc \in {"time_loop", "summarize"} /\ k >= 1

\* |p.seconds - q.seconds| of two timestamped points
Delta(p, q) == Abs(p.seconds[1] - q.seconds[1])

\* C1: every pair match_by_time has put in its result joins two points that
\* both carry epoch-seconds and lie at most epsilon seconds apart.
C1_PairsWithinEpsilon ==
    (argv.match = "time" /\ pc \in {"time_loop", "summarize"}) =>
        \A j \in DOMAIN matches :
            /\ matches[j].b.seconds # None
            /\ matches[j].t.seconds # None
            /\ Delta(matches[j].t, matches[j].b) <= argv.epsilon_sec

\* A run of match_by_time under epsilon = 1 that has returned, accepted a
\* pair and dropped a timestamped baseline point.
C1_Witness ==
    /\ argv.match = "time"
    /\ pc = "summarize"
    /\ argv.epsilon_sec = 1
    /\ Len(matches) >= 1
    /\ Len(matches) < Len(base_t)

\* C2: the point picked for a baseline point b is a test point, and no
\* timestamped test point of the track, as given in the file, is strictly
\* nearer in time to b.
C2_WinnerIsNearest ==
    TimeIterated =>
        /\ winner # None
        /\ winner[1] \in Range(test)
        /\ \A j \in DOMAIN test :
              test[j].seconds # None => Delta(test[j], base_t[k]) >= Delta(winner[1], base_t[k])

\* A pick from a test track whose times are out of order in the file, the
\* picked point being the later one of the file.
C2_Witness ==
    /\ TimeIterated
    /\ Len(test) = 2
    /\ test[1].seconds = Some(2)
    /\ test[2].seconds = Some(0)
    /\ base_t[k].seconds = Some(0)
    /\ winner = Some(test[2])

\* idx is the insertion position of sec in the sorted test times, and both
\* neighbours exist and are equally far from the baseline point.
TimeTie ==
    /\ TimeIterated
    /\ idx > 0
    /\ idx < Len(test_t)
    /\ \A j \in 1..idx : test_t[j].seconds[1] < base_t[k].seconds[1]
    /\ \A j \in (idx + 1)..Len(test_t) : test_t[j].seconds[1] >= base_t[k].seconds[1]
    /\ Delta(test_t[idx + 1], base_t[k]) = Delta(test_t[idx], base_t[k])

\* C3: on a tie between the two neighbours the point at the insertion
\* position, the later one, is picked, and it is the one paired when the
\* tie is within epsilon.
C3_TieTakesInsertionPosition ==
    TimeTie =>
        /\ winner = Some(test_t[idx + 1])
        /\ Delta(test_t[idx + 1], base_t[k]) <= argv.epsilon_sec =>
              /\ matches # <<>>
              /\ matches[Len(matches)].b = base_t[k]
              /\ matches[Len(matches)].t = test_t[idx + 1]

\* A tie within epsilon: test points one second before and after b.
C3_Witness ==
    /\ TimeTie
    /\ argv.epsilon_sec = 1
    /\ matches # <<>>
    /\ matches[Len(matches)].t.seconds = Some(2)
    /\ matches[Len(matches)].b.seconds = Some(1)

\* The nearest strategy has consumed k baseline points.
SpatialRunning == argv.match = "nearest" /\ pc \in {"spatial_loop", "summarize"}

Dist(p, q) == haversine_m(p.lat, p.lon, q.lat, q.lon)

\* C5: the j-th pair of match_by_spatial joins the j-th baseline point with
\* the first test point, in file order, whose distance to it is the least
\* over all test points.
C5_FirstNearest ==
    SpatialRunning =>
        /\ Len(matches) = k
        /\ \A j \in DOMAIN matches :
              /\ matches[j].b = baseline[j]
              /\ \E i \in DOMAIN test :
                    /\ matches[j].t = test[i]
                    /\ matches[j].dist = Dist(baseline[j], test[i])
                    /\ \A h \in DOMAIN test : Dist(baseline[j], test[h]) >= matches[j].dist
                    /\ \A h \in 1..(i - 1) : Dist(baseline[j], test[h]) > matches[j].dist

\* Two different test points equally far from the baseline point, the
\* first of them untimed: the first is the one paired.
C5_Witness ==
    /\ SpatialRunning
    /\ k >= 1
    /\ Len(test) = 2
    /\ test[1] # test[2]
    /\ test[1].seconds = None
    /\ Dist(baseline[1], test[1]) = Dist(baseline[1], test[2])
    /\ matches[1].t = test[1]

\* Some timestamped test point lies within epsilon of p.
Acceptable(p) ==
    /\ p.seconds # None
    /\ \E j \in DOMAIN test :
          test[j].seconds # None /\ Delta(test[j], p) <= argv.epsilon_sec

MatchedBase == [j \in DOMAIN matches |-> matches[j].b]

\* C6: when a matcher returns, no exception was raised; the result is empty
\* if a track is empty; under the time strategy a point value occurs among
\* the paired baseline points as often as in the baseline if it is
\* acceptable and not at all otherwise; under the nearest strategy it occurs
\* as often as in the baseline.
C6_OnePairPerMatchedBasePoint ==
    pc = "summarize" =>
        /\ raised = None
        /\ (baseline = <<>> \/ test = <<>>) => matches = <<>>
        /\ argv.match = "time" =>
              \A p \in Range(baseline) \cup Range(MatchedBase) :
                  Count(MatchedBase, p) = IF Acceptable(p) THEN Count(baseline, p) ELSE 0
        /\ (argv.match = "nearest" /\ test # <<>>) =>
              /\ Len(matches) = Len(baseline)
              /\ \A p \in Range(baseline) \cup Range(MatchedBase) :
                    Count(MatchedBase, p) = Count(baseline, p)

\* The time strategy has returned one pair for a baseline of an untimed
\* point and a timestamped one.
C6_Witness ==
    /\ pc = "summarize"
    /\ argv.match = "time"
    /\ Len(baseline) = 2
    /\ baseline[1].seconds = None
    /\ baseline[2].seconds # None
    /\ Len(matches) = 1
    /\ matches[1].b = baseline[2]

\* The end-to-end scenario under the time strategy and epsilon = 5 s.
IsScenario ==
    /\ fs.baseline = ScenarioBaseline
    /\ fs.test = ScenarioTest
    /\ argv.match = "time"
    /\ argv.epsilon_sec = 5

\* The (baseline seconds, test seconds) of the pairs, in order.
PairTimes == [j \in DOMAIN matches |-> <<matches[j].b.seconds[1], matches[j].t.seconds[1]>>]

\* C4 as stated: the scenario ends with two pairs, t=0 with 1 and t=10 with
\* 9, the baseline point at t=20 being dropped, and reports two.
C4_ScenarioTwoPairs ==
    (IsScenario /\ pc = "exit") =>
        /\ PairTimes = << <<0, 1>>, <<10, 9>> >>
        /\ stdout[1] = Line("Matched", Some(2))

\* C4 (amended): the scenario ends with three pairs, t=0 with 1, t=10 with
\* 9 and t=20 with 22, whose delta of 2 s is within the 5 s window, and
\* reports three.
C4_ScenarioThreePairs ==
    (IsScenario /\ pc = "exit") =>
        /\ PairTimes = << <<0, 1>>, <<10, 9>>, <<20, 22>> >>
        /\ stats[1].count = 3
        /\ stdout[1] = Line("Matched", Some(3))

\* The scenario has run to its end with status 0.
C4_Witness ==
    /\ IsScenario
    /\ pc = "exit"
    /\ exit_status = Some(0)
    /\ Len(matches) = 3

\* percentile has returned for a non-empty sorted list.
PercentileReturned == pc = "returned" /\ distances # <<>>

\* v is the element of rank r (0-based) of the list xs in ascending order.
IsRank(xs, r, v) ==
    /\ v \in Range(xs)
    /\ Cardinality({j \in DOMAIN xs : xs[j] < v}) <= r
    /\ Cardinality({j \in DOMAIN xs : xs[j] <= v}) >= r + 1

\* r + 1 = ceil(p / 100 * n)
IsCeilRank(r, p, n) == r * 100 < p * n /\ p * n <= (r + 1) * 100

\* C7: percentile returns the minimum for p <= 0, the maximum for p >= 100
\* and otherwise the element of rank ceil(p/100 * n) - 1, which lies in
\* [0, n-1]; summarize reports as p90 the element of rank ceil(0.9 * n) - 1
\* of the sorted distances and as max their largest; the p90 of 1, 2, 3, 4
\* is 4.
C7_NearestRank ==
    /\ PercentileReturned =>
          /\ result # None
          /\ pct <= 0 => IsRank(distances, 0, result[1])
          /\ pct >= 100 => IsRank(distances, Len(distances) - 1, result[1])
          /\ (0 < pct /\ pct < 100) =>
                \E r \in 0..(Len(distances) - 1) :
                    /\ IsCeilRank(r, pct, Len(distances))
                    /\ result[1] = distances[r + 1]
    /\ (pc = "summarized" /\ distances # <<>>) =>
          /\ \E r \in 0..(Len(distances) - 1) :
                /\ IsCeilRank(r, 90, Len(distances))
                /\ stats[1].p90 # None
                /\ IsRank(distances, r, stats[1].p90[1])
          /\ stats[1].max_val # None
          /\ IsRank(distances, Len(distances) - 1, stats[1].max_val[1])
          /\ (Len(distances) = 4 /\ Range(distances) = {1, 2, 3, 4}) =>
                stats[1].p90 = Some(4) /\ stats[1].max_val = Some(4)

\* The 75th percentile of 1, 2, 3, 4: rank ceil(3) - 1 = 2, neither end.
C7_Witness ==
    /\ pc = "returned"
    /\ distances = <<1, 2, 3, 4>>
    /\ pct = 75
    /\ result = Some(3)

\* A track point record with numeric latitude and longitude.
WellFormed(e) ==
    /\ e.name = "trkpt"
    /\ e.lat # None /\ e.lat[1].reads = "float"
    /\ e.lon # None /\ e.lon[1].reads = "float"

NoWellFormedRecord(file) == \A j \in DOMAIN file.elements : ~WellFormed(file.elements[j])

\* C8 as stated: a file that can be read and holds no well-formed point
\* record makes parse_gpx fail with a ParseError.
C8_NoPointsIsParseError ==
    (pc \in {"parse_test", "exit"} /\ fs.baseline.state # "missing"
        /\ NoWellFormedRecord(fs.baseline)) =>
        raised = Some("ParseError")

\* C8 (amended): a file that can be read and holds no well-formed point
\* record makes parse_gpx fail with a ParseError only if it is not
\* well-formed XML; a well-formed document without such a record yields
\* the empty Track and no error.
C8_NoPointsIsEmptyTrack ==
    (pc = "parse_test" \/ (pc = "exit" /\ fs.baseline.state # "xml")) =>
        /\ fs.baseline.state = "malformed" => raised = Some("ParseError")
        /\ (fs.baseline.state = "xml" /\ NoWellFormedRecord(fs.baseline)) =>
              /\ raised = None
              /\ exit_status = None
              /\ baseline = <<>>

\* A document of defective records only has been parsed into the empty Track.
C8_Witness ==
    /\ pc = "parse_test"
    /\ fs.baseline.state = "xml"
    /\ Len(fs.baseline.elements) = 2
    /\ \A j \in DOMAIN fs.baseline.elements : fs.baseline.elements[j].name = "trkpt"
    /\ baseline = <<>>
    /\ raised = None

\* The time children of a record, and the instant its first one denotes, if any.
TimeChildren(e) == SelectSeq(e.children, LAMBDA c : c.name = "time")

UsableTime(e) ==
    /\ TimeChildren(e) # <<>>
    /\ TimeChildren(e)[1].text # None
    /\ TimeChildren(e)[1].text[1].form \in {"naive", "zulu", "offset"}

Instant(text) == IF text.form = "offset" THEN text.wall - text.off ELSE text.wall

\* C10: the Track is the file-order subsequence of the well-formed track
\* point records: as many points, each with the coordinates of its record;
\* a record whose time is missing or unparseable is kept with timestamp and
\* epoch-seconds absent, any other carries both, for the same instant.
C10_TrackIsWellFormedSubsequence ==
    (pc = "parse_test" /\ fs.baseline.state = "xml") =>
        LET wf == SelectSeq(fs.baseline.elements, WellFormed)
        IN  /\ raised = None
            /\ Len(baseline) = Len(wf)
            /\ \A j \in DOMAIN baseline :
                  /\ baseline[j].lat = wf[j].lat[1].val
                  /\ baseline[j].lon = wf[j].lon[1].val
                  /\ (baseline[j].timestamp = None) <=> (baseline[j].seconds = None)
                  /\ ~UsableTime(wf[j]) => baseline[j].timestamp = None
                  /\ UsableTime(wf[j]) =>
                        /\ baseline[j].seconds = Some(Instant(TimeChildren(wf[j])[1].text[1]))
                        /\ baseline[j].timestamp = Some([utc |-> baseline[j].seconds[1]])

\* A file of a record with non-numeric latitude between a record with an
\* unparseable time and one with a good time: two points are kept.
C10_Witness ==
    /\ pc = "parse_test"
    /\ fs.baseline.state = "xml"
    /\ Len(fs.baseline.elements) = 3
    /\ ~UsableTime(fs.baseline.elements[1]) /\ WellFormed(fs.baseline.elements[1])
    /\ fs.baseline.elements[1].children # <<>>
    /\ fs.baseline.elements[2].lat = Junk
    /\ UsableTime(fs.baseline.elements[3]) /\ WellFormed(fs.baseline.elements[3])
    /\ Len(baseline) = 2
    /\ baseline[1].seconds = None
    /\ baseline[2].seconds # None

Labels == [j \in DOMAIN stdout |-> stdout[j].label]

StatsLabels == <<"Matched", "Median", "P90", "Max", "Mean">>

ParseFailed == raised \in {Some("FileNotFoundError"), Some("ParseError")}

\* What C9 says of a finished run apart from the condition of status 0.
RunReport ==
    /\ exit_status = Some(0) =>
          \/ Labels = StatsLabels
          \/ Labels = StatsLabels \o <<"CSV written to">>
    /\ (Len(matches) = 0 /\ ~ParseFailed) =>
          /\ Labels = <<"No matched points found.">>
          /\ exit_status = Some(1)
          /\ csv_file = None
    /\ ParseFailed => exit_status = Some(1)

\* C9 as stated: a run ends with status 0 if and only if at least one pair
\* was matched, with the statistics lines before any CSV line; with no pair
\* it prints the no-match message, ends with status 1, prints no statistics
\* and writes no CSV; a parse error ends it with status 1.
C9_StatusZeroIffMatched ==
    pc = "exit" =>
        /\ exit_status = Some(0) <=> Len(matches) >= 1
        /\ RunReport

\* C9 (amended): a run ends with status 0 if and only if at least one pair
\* was matched and the CSV file, if one was asked for, could be written; if
\* it could not, the run ends with status 1 after the five statistics lines;
\* the rest as stated.
C9_StatusZeroIffMatchedAndWritten ==
    pc = "exit" =>
        /\ exit_status = Some(0) <=>
              (Len(matches) >= 1 /\ (argv.csv_path = None \/ fs.csv_writable))
        /\ (Len(matches) >= 1 /\ argv.csv_path # None /\ ~fs.csv_writable) =>
              /\ exit_status = Some(1)
              /\ raised = Some("OSError")
              /\ Labels = StatsLabels
              /\ csv_file = None
        /\ (exit_status = Some(0) /\ argv.csv_path # None) =>
              /\ csv_file # None
              /\ Labels = StatsLabels \o <<"CSV written to">>
        /\ (exit_status = Some(0) /\ argv.csv_path = None) =>
              /\ csv_file = None
              /\ Labels = StatsLabels
        /\ RunReport

\* A run that matched, printed the statistics and then wrote the CSV file.
C9_Witness ==
    /\ pc = "exit"
    /\ exit_status = Some(0)
    /\ Len(matches) >= 1
    /\ csv_file # None
    /\ Len(stdout) = 6

=============================================================================
